---- MODULE Spec2Model ----
(***************************************************************************)
(* Design Transfer plugin: the transfer orchestrator (handleTransfer,      *)
(* transferWithinCurrentFile, transferToOtherFile), the comment feed used  *)
(* as a relay, and the polling consumer (checkAndApplyPendingTransfers,    *)
(* applyPendingTransfer, createNodeFromSerialized).                        *)
(*                                                                         *)
(* The repository holds two builds of the plugin: src/code.ts and          *)
(* src/unnamed/part_000.  The variable `variant` says which one runs.      *)
(* Every handler is cut at its awaits: one action per stretch of code that *)
(* runs without suspension.                                                *)
(***************************************************************************)
EXTENDS Integers, Sequences, FiniteSets, TLC

\* ------------------------------------------------------------------ bounds
MaxClones == 1     \* clones the source session may create in one run
MaxSel == 2        \* elements the user may select at once
MaxFeed == 2       \* comments ever posted to the destination feed
MaxInv == 2        \* poll invocations in flight plus elements already reconstructed
MaxTs == 2         \* distinct sender clock readings
MaxFails == 2      \* host calls that throw during one reconstruction
MaxHandlers == 2   \* get-pages messages being handled at the same time
MaxAdds == 3       \* addToRecentFiles calls completed in one run

VARIABLES
  variant,        \* "code_ts" | "part_000": the build that runs
  srcPages,       \* source document: figma.root.children, each page with its top-level nodes
  currentPage,    \* figma.currentPage (a page id) of the source session
  selection,      \* figma.currentPage.selection: sequence of node ids
  nextId,         \* next fresh node id of the source document
  tokenScopes,    \* clientStorage "tokenScopes" of the source session
  xfer,           \* the transfer request being handled by the source session
  feed,           \* comments of the destination file, in feed order
  nextCommentId,  \* next comment id the comments endpoint hands out
  dstPages,       \* page ids of the destination document
  dstNodes,       \* elements created in the destination document, in creation order
  dstToken,       \* clientStorage "figmaApiToken" of the destination sessions
  dstFileKey,     \* figma.fileKey of the destination sessions ("" when the host gives none)
  timers,         \* per destination session: how far its start-up timers have run
  inv,            \* pool of invocations of checkAndApplyPendingTransfers
  codec,          \* one element taken through deepSerializeNode, the wire and back
  recentFiles,    \* clientStorage "recentFiles": FileData records, newest first
  getPages,       \* pool of handleGetPages invocations for remote files
  addLog          \* history: the keys addToRecentFiles has stored, in the order stored

vars == <<variant, srcPages, currentPage, selection, nextId, tokenScopes, xfer,
          feed, nextCommentId, dstPages, dstNodes, dstToken, dstFileKey,
          timers, inv, codec, recentFiles, getPages, addLog>>

rfVars == <<recentFiles, getPages, addLog>>

srcVars == <<variant, srcPages, currentPage, selection, nextId, tokenScopes, xfer>>
dstVars == <<dstPages, dstNodes, dstToken, dstFileKey, timers, inv>>

\* ------------------------------------------------------------ element trees
\* An element is a record: id, type, name, the attributes its kind exposes
\* (one or two of each group: geometry x; paint strokeAlign, cornerRadius; text
\* characters, fontName; layout layoutMode) and, for containers, children.
Leaf(id, type, name) == [id |-> id, type |-> type, name |-> name]
Container(id, type, name, children) ==
  [id |-> id, type |-> type, name |-> name, children |-> children]

Frame(id, name, x, strokeAlign, cornerRadius, layoutMode, children) ==
  [id |-> id, type |-> "FRAME", name |-> name, x |-> x, strokeAlign |-> strokeAlign,
   cornerRadius |-> cornerRadius, layoutMode |-> layoutMode, children |-> children]
Component(id, name, x, strokeAlign, cornerRadius, layoutMode, children) ==
  [Frame(id, name, x, strokeAlign, cornerRadius, layoutMode, children)
     EXCEPT !.type = "COMPONENT"]
Rectangle(id, name, x, strokeAlign, cornerRadius) ==
  [id |-> id, type |-> "RECTANGLE", name |-> name, x |-> x,
   strokeAlign |-> strokeAlign, cornerRadius |-> cornerRadius]
Ellipse(id, name, x, strokeAlign) ==
  [id |-> id, type |-> "ELLIPSE", name |-> name, x |-> x, strokeAlign |-> strokeAlign]
Text(id, name, x, strokeAlign, characters, fontName) ==
  [id |-> id, type |-> "TEXT", name |-> name, x |-> x, strokeAlign |-> strokeAlign,
   characters |-> characters, fontName |-> fontName]
Group(id, name, x, children) ==
  [id |-> id, type |-> "GROUP", name |-> name, x |-> x, children |-> children]

\* "children" in node
HasChildren(node) == "children" \in DOMAIN node

\* node.clone(): a deep copy with fresh identifiers
RECURSIVE CloneNode(_, _)
CloneNode(node, newId) ==
  IF HasChildren(node)
    THEN [node EXCEPT !.id = newId,
                      !.children = [i \in DOMAIN node.children |->
                                      CloneNode(node.children[i], Append(newId, i))]]
    ELSE [node EXCEPT !.id = newId]

\* the properties deepSerializeNode copies when the node has them
SerializedKeys == {"type", "name", "id", "x", "strokeAlign", "cornerRadius",
                   "characters", "fontName", "layoutMode", "children"}

\* deepSerializeNode: type, name, id, every attribute the node exposes, and the
\* children in their order
RECURSIVE deepSerializeNode(_)
deepSerializeNode(node) ==
  [k \in DOMAIN node \cap SerializedKeys |->
     IF k = "children"
       THEN [i \in DOMAIN node.children |-> deepSerializeNode(node.children[i])]
       ELSE node[k]]

\* ------------------------------------------------------- source document
Frame1 == Frame(<<1>>, "Card", "0", "INSIDE", "0", "NONE",
                << Rectangle(<<1, 1>>, "bg", "0", "INSIDE", "0"),
                   Text(<<1, 2>>, "label", "10", "OUTSIDE", "Hi", "Inter") >>)
Rect2 == Rectangle(<<2>>, "Box", "200", "INSIDE", "0")

InitSrcPages == << [id |-> 1, name |-> "Page 1", children |-> <<Frame1, Rect2>>],
                   [id |-> 2, name |-> "Drafts", children |-> <<>>] >>

\* the first identifier not used by the initial document
FirstCloneId == Len(InitSrcPages[1].children) + 1

PageIds(pages) == {pages[i].id : i \in DOMAIN pages}

\* figma.root.children.find((p) => p.id === pageId): index of the page, 0 when absent
FindPage(pages, pid) ==
  IF pid \in PageIds(pages)
    THEN CHOOSE i \in DOMAIN pages : pages[i].id = pid
    ELSE 0

NodeIdsOn(pages, pid) ==
  LET i == FindPage(pages, pid)
  IN IF i = 0 THEN {} ELSE {pages[i].children[k].id : k \in DOMAIN pages[i].children}

AllTopNodes(pages) ==
  UNION {{pages[i].children[k] : k \in DOMAIN pages[i].children} : i \in DOMAIN pages}

NodeById(pages, id) == CHOOSE n \in AllTopNodes(pages) : n.id = id

\* node.remove(): the node leaves whatever page holds it
RemoveNode_Mut(pages, id) == pages
RemoveNode(pages, id) ==
  [i \in DOMAIN pages |->
     [pages[i] EXCEPT !.children = SelectSeq(@, LAMBDA n : n.id # id)]]

\* parent.appendChild(node): the node leaves its old parent and becomes the last child
AppendChild_Mut(pages, pid, node) ==
  [pages EXCEPT ![FindPage(pages, pid)].children = Append(@, node)]
AppendChild(pages, pid, node) ==
  LET without == RemoveNode(pages, node.id)
      i == FindPage(without, pid)
  IN [without EXCEPT ![i].children = Append(@, node)]

\* the nodes `ids` of a page as a sequence, in the page's child order
InPageOrder(ids, pages, pid) ==
  LET i == FindPage(pages, pid)
      kept == SelectSeq(pages[i].children, LAMBDA n : n.id \in ids)
  IN [k \in DOMAIN kept |-> kept[k].id]

\* the host keeps in the selection only nodes that are still on the current page
Prune(sel, pages, pid) == SelectSeq(sel, LAMBDA id : id \in NodeIdsOn(pages, pid))

\* figma.createPage(); page.name = name
CreatePage(pages, name) ==
  Append(pages, [id |-> Len(pages) + 1, name |-> name, children |-> <<>>])

\* ------------------------------------------------------------- UI messages
Ui(type, progress, success) == [type |-> type, progress |-> progress, success |-> success]
Progress(n) == Ui("transfer-progress", n, TRUE)
ErrorMsg == Ui("error", 0, FALSE)
Complete(ok) == Ui("transfer-complete", 0, ok)

\* ---------------------------------------------------------------- requests
NoPage == 0
\* no page, the pages both documents start with, and an id neither starts with
PageInputs == {NoPage} \cup PageIds(InitSrcPages) \cup {Len(InitSrcPages) + 1}
NameInputs == {"", "New"}
FileKeys == {"current", "other"}

Requests == [fileKey : FileKeys, pageId : PageInputs, newPageName : NameInputs]

NoNode == Leaf(<<>>, "NONE", "")
NoData == [type |-> "NONE"]

IdleXfer == [pc |-> "idle", msg |-> [fileKey |-> "current", pageId |-> NoPage, newPageName |-> ""],
             selLen |-> 0, node |-> NoNode, clone |-> <<>>, nodeData |-> NoData,
             target |-> NoPage, scopes |-> [present |-> FALSE, hasWriteAccess |-> FALSE],
             before |-> <<>>, feedBefore |-> <<>>, calls |-> <<>>, ui |-> <<>>,
             outcome |-> "none"]

\* selection.length !== 1
SelectionInvalid_Mut(sel) == Len(sel) = 0
SelectionInvalid(sel) == Len(sel) # 1

\* msg.fileKey === figma.fileKey || msg.fileKey === "current"
IsCurrentFile(msg) == msg.fileKey = "current"

\* !tokenScopes || !tokenScopes.hasWriteAccess
ScopeDenied_Mut(ts) == FALSE
ScopeDenied(ts) == ~ts.present \/ ~ts.hasWriteAccess

\* what the catch blocks post: transferXxx's own catch (part_000 only), then handleTransfer's
FailUi_Mut(v) == <<Complete(TRUE), ErrorMsg>>
FailUi(v) == IF v = "part_000" THEN <<Complete(FALSE), ErrorMsg>> ELSE <<ErrorMsg>>

Failed(x, v) == [x EXCEPT !.pc = "done", !.outcome = "failed", !.ui = @ \o FailUi(v)]

\* ------------------------------------------------------------------- Init
Sess == {1, 2}
NoComment == [id |-> 0, message |-> <<>>]
IdleInv == [pc |-> "idle", sess |-> 0, latest |-> NoComment, data |-> NoData,
            created |-> FALSE]

\* the codec bench before it has taken an element
IdleCodec == [pc |-> "idle", x |-> NoNode, nodeData |-> NoData, page |-> NoPage,
              cur |-> NoPage, envelope |-> NoData, listed |-> <<>>,
              fails |-> {}, late |-> {}, result |-> NoNode, left |-> {},
              report |-> "none", trace |-> <<>>]

\* documents, sessions and feed as the plugin finds them when it starts
InitDoc(v, k) ==
  /\ variant = v
  /\ srcPages = InitSrcPages
  /\ currentPage = InitSrcPages[1].id
  /\ selection = <<>>
  /\ nextId = FirstCloneId
  /\ tokenScopes = [present |-> FALSE, hasWriteAccess |-> FALSE]
  /\ xfer = IdleXfer
  /\ feed = <<>>
  /\ nextCommentId = 1
  /\ dstPages = PageIds(InitSrcPages)
  /\ dstNodes = <<>>
  /\ dstToken = FALSE
  /\ dstFileKey = k
  /\ timers = [s \in Sess |-> "init"]
  /\ inv = [i \in 1..MaxInv |-> IdleInv]

\* a handleGetPages invocation that has not started
NoFile == 0
IdleGetPages == [pc |-> "idle", fileKey |-> NoFile, recentFiles |-> <<>>, ui |-> "none"]

\* nothing stored under "recentFiles", no get-pages message being handled
NoRecentFiles ==
  /\ recentFiles = <<>>
  /\ getPages = [h \in 1..MaxHandlers |-> IdleGetPages]
  /\ addLog = [prefilled |-> 0, calls |-> <<>>]

InitWith(v, k) == InitDoc(v, k) /\ codec = IdleCodec /\ NoRecentFiles

\* ------------------------------------------------------ source session: user
\* the user changes the selection on the current page
SelectionChange ==
  /\ \E ids \in SUBSET NodeIdsOn(srcPages, currentPage) :
       /\ Cardinality(ids) <= MaxSel
       /\ selection' = InPageOrder(ids, srcPages, currentPage)
       /\ selection' # selection
  /\ UNCHANGED <<variant, srcPages, currentPage, nextId, tokenScopes, xfer,
                 feed, nextCommentId, dstVars, codec, rfVars>>

\* handleValidateToken with an accepted token: part_000 stores the scope record
ValidateToken ==
  /\ variant = "part_000"
  /\ ~tokenScopes.present
  /\ tokenScopes' = [present |-> TRUE, hasWriteAccess |-> TRUE]
  /\ UNCHANGED <<variant, srcPages, currentPage, selection, nextId, xfer,
                 feed, nextCommentId, dstVars, codec, rfVars>>

\* --------------------------------------------------- handleTransfer (entry)
\* the request as received, with the history the properties read
NewXfer(msg) ==
  [IdleXfer EXCEPT !.msg = msg, !.selLen = Len(selection),
                   !.before = srcPages, !.feedBefore = feed]

HandleTransfer ==
  /\ xfer.pc \in {"idle", "done"}
  /\ \E msg \in Requests :
       LET x == NewXfer(msg)
       IN IF SelectionInvalid(selection)
            THEN \* post the error and return
                 /\ xfer' = [x EXCEPT !.pc = "done", !.outcome = "failed", !.ui = <<ErrorMsg>>]
                 /\ UNCHANGED <<srcPages, nextId>>
            ELSE /\ nextId < FirstCloneId + MaxClones
                 /\ LET node == NodeById(srcPages, selection[1])
                        xn == [x EXCEPT !.node = node]
                    IN IF IsCurrentFile(msg)
                         THEN \* transferWithinCurrentFile up to await loadAllPagesAsync()
                              /\ xfer' = [xn EXCEPT !.pc = "same_load",
                                            !.ui = IF variant = "part_000"
                                                     THEN <<Progress(10)>> ELSE <<>>]
                              /\ UNCHANGED <<srcPages, nextId>>
                         ELSE IF variant = "part_000"
                           THEN \* transferToOtherFile up to await getAsync("tokenScopes")
                                /\ xfer' = [xn EXCEPT !.pc = "cross_scopes"]
                                /\ UNCHANGED <<srcPages, nextId>>
                           ELSE \* code.ts: clone, then await exportAsync
                                /\ xfer' = [xn EXCEPT !.pc = "cross_export",
                                                      !.clone = <<nextId>>]
                                /\ srcPages' = AppendChild(srcPages, currentPage,
                                                           CloneNode(node, <<nextId>>))
                                /\ nextId' = nextId + 1
  /\ selection' = Prune(selection, srcPages', currentPage)
  /\ UNCHANGED <<variant, currentPage, tokenScopes, feed, nextCommentId, dstVars, codec, rfVars>>

\* ------------------------------------------------ transferWithinCurrentFile
\* after loadAllPagesAsync: clone, resolve the target page, append (code.ts) or
\* await targetPage.loadAsync() (part_000, existing page)
SameAfterLoad ==
  /\ xfer.pc = "same_load"
  /\ LET msg == xfer.msg
         cloneId == <<nextId>>
         cloned == AppendChild(srcPages, currentPage, CloneNode(xfer.node, cloneId))
         x1 == [xfer EXCEPT !.clone = cloneId,
                  !.ui = IF variant = "part_000"
                           THEN @ \o <<Progress(30), Progress(50)>> ELSE @]
     IN /\ nextId' = nextId + 1
        /\ IF msg.newPageName # ""
             THEN LET withPage == CreatePage(cloned, msg.newPageName)
                      pid == Len(withPage)
                  IN /\ srcPages' = AppendChild(withPage, pid, NodeById(withPage, cloneId))
                     /\ xfer' = IF variant = "part_000"
                                  THEN [x1 EXCEPT !.pc = "same_setPage", !.target = pid,
                                          !.ui = @ \o <<Progress(70), Progress(90)>>]
                                  ELSE [x1 EXCEPT !.pc = "done", !.target = pid,
                                          !.outcome = "success",
                                          !.ui = @ \o <<Ui("success", 0, TRUE)>>]
             ELSE IF msg.pageId # NoPage
               THEN IF FindPage(cloned, msg.pageId) = 0
                      THEN \* throw new Error("Target page not found")
                           /\ srcPages' = cloned
                           /\ xfer' = Failed(x1, variant)
                      ELSE IF variant = "part_000"
                        THEN /\ srcPages' = cloned
                             /\ xfer' = [x1 EXCEPT !.pc = "same_loadPage",
                                                   !.target = msg.pageId]
                        ELSE /\ srcPages' = AppendChild(cloned, msg.pageId,
                                                        NodeById(cloned, cloneId))
                             /\ xfer' = [x1 EXCEPT !.pc = "done", !.target = msg.pageId,
                                           !.outcome = "success",
                                           !.ui = @ \o <<Ui("success", 0, TRUE)>>]
               ELSE \* throw new Error("No target page specified")
                    /\ srcPages' = cloned
                    /\ xfer' = Failed(x1, variant)
  /\ selection' = Prune(selection, srcPages', currentPage)
  /\ UNCHANGED <<variant, currentPage, tokenScopes, feed, nextCommentId, dstVars, codec, rfVars>>

\* part_000, after targetPage.loadAsync(): append, then await setCurrentPageAsync
SameAfterLoadPage ==
  /\ xfer.pc = "same_loadPage"
  /\ srcPages' = AppendChild(srcPages, xfer.target, NodeById(srcPages, xfer.clone))
  /\ xfer' = [xfer EXCEPT !.pc = "same_setPage",
                          !.ui = @ \o <<Progress(70), Progress(90)>>]
  /\ selection' = Prune(selection, srcPages', currentPage)
  /\ UNCHANGED <<variant, currentPage, nextId, tokenScopes,
                 feed, nextCommentId, dstVars, codec, rfVars>>

\* part_000, after setCurrentPageAsync: select the clone, report completion
SameAfterSetPage ==
  /\ xfer.pc = "same_setPage"
  /\ currentPage' = xfer.target
  /\ selection' = <<xfer.clone>>
  /\ xfer' = [xfer EXCEPT !.pc = "done", !.outcome = "success",
                          !.ui = @ \o <<Progress(100), Complete(TRUE)>>]
  /\ UNCHANGED <<variant, srcPages, nextId, tokenScopes, feed, nextCommentId, dstVars, codec, rfVars>>

\* ------------------------------------------------------------- relay wire
Marker == [tok |-> "[FIGMA_DESIGN_TRANSFER]"]
Newline == [tok |-> "\n"]
JsonTok(v) == [tok |-> "json", val |-> v]
Garbage == [tok |-> "text"]

\* JSON.stringify(value): one well-formed JSON document
JSONstringify(v) == <<JsonTok(v)>>
\* JSON.parse(text) succeeds exactly on one well-formed JSON document
JSONparses(text) == Len(text) = 1 /\ text[1].tok = "json"
JSONparse(text) == text[1].val

\* `[FIGMA_DESIGN_TRANSFER]\n${transferDataStr}`
WireText_Mut(transferDataStr) == <<Marker>> \o transferDataStr
WireText(transferDataStr) == <<Marker, Newline>> \o transferDataStr

\* the envelope transferToOtherFile builds
TransferData(nodeData, sourceName, targetPageId, ts) ==
  [type |-> "DESIGN_TRANSFER", nodeData |-> nodeData, sourceName |-> sourceName,
   sourceFile |-> "Source", targetPageId |-> targetPageId, timestamp |-> ts]

\* the comments endpoint appends the comment and gives it the next id
PostComment(f, id, text) == Append(f, [id |-> id, message |-> text])

\* ------------------------------------------------------ transferToOtherFile
\* code.ts, after exportAsync: post cross-file-ready and remove the clone, or rethrow
CrossAfterExport ==
  /\ xfer.pc = "cross_export"
  /\ \/ /\ srcPages' = RemoveNode(srcPages, xfer.clone)
        /\ xfer' = [xfer EXCEPT !.pc = "done", !.outcome = "success",
                                !.nodeData = [type |-> "SVG"],
                                !.ui = @ \o <<Ui("cross-file-ready", 0, TRUE)>>]
     \/ \* exportAsync rejects
        /\ xfer' = Failed(xfer, variant)
        /\ UNCHANGED srcPages
  /\ selection' = Prune(selection, srcPages', currentPage)
  /\ UNCHANGED <<variant, currentPage, nextId, tokenScopes,
                 feed, nextCommentId, dstVars, codec, rfVars>>

\* part_000, after getAsync("tokenScopes"): scope check, clone, await deepSerializeNode
CrossAfterScopes ==
  /\ xfer.pc = "cross_scopes"
  /\ LET x == [xfer EXCEPT !.scopes = tokenScopes]
     IN IF ScopeDenied(tokenScopes)
          THEN /\ xfer' = Failed(x, variant)
               /\ UNCHANGED <<srcPages, nextId>>
          ELSE /\ xfer' = [x EXCEPT !.pc = "cross_serialize", !.clone = <<nextId>>,
                                    !.ui = @ \o <<Progress(5), Progress(15)>>]
               /\ srcPages' = AppendChild(srcPages, currentPage,
                                          CloneNode(xfer.node, <<nextId>>))
               /\ nextId' = nextId + 1
  /\ selection' = Prune(selection, srcPages', currentPage)
  /\ UNCHANGED <<variant, currentPage, tokenScopes, feed, nextCommentId, dstVars, codec, rfVars>>

\* part_000, after deepSerializeNode: issue GET /v1/files/:key, or rethrow
CrossAfterSerialize ==
  /\ xfer.pc = "cross_serialize"
  /\ \/ xfer' = [xfer EXCEPT !.pc = "cross_getFile",
                   !.nodeData = deepSerializeNode(NodeById(srcPages, xfer.clone)),
                   !.calls = Append(@, "GET_FILE"),
                   !.ui = Append(@, Progress(50))]
     \/ \* a property read of the host throws
        xfer' = Failed(xfer, variant)
  /\ UNCHANGED <<variant, srcPages, currentPage, selection, nextId, tokenScopes,
                 feed, nextCommentId, dstVars, codec, rfVars>>

\* if (msg.newPageName) throw
NewPageAsked_Mut(msg) == FALSE
NewPageAsked(msg) == msg.newPageName # ""

\* fileData.document.children.find((p) => p.id === targetPageId) finds nothing
TargetPageMissing(msg, pages) == msg.pageId \notin pages

\* part_000, after the file response: validate the destination, issue POST comments
CrossAfterGetFile ==
  /\ xfer.pc = "cross_getFile"
  /\ \E response \in {"ok", "not_ok", "rejected"} :
       LET x == [xfer EXCEPT !.ui = Append(@, Progress(60))]
       IN IF response = "rejected"
            THEN xfer' = Failed(xfer, variant)
            ELSE IF response = "not_ok"
              THEN xfer' = Failed(x, variant)
              ELSE IF NewPageAsked(xfer.msg)
                THEN \* creating new pages via API is not supported
                     xfer' = Failed(x, variant)
                ELSE IF TargetPageMissing(xfer.msg, dstPages)
                  THEN \* target page not found in destination file
                       xfer' = Failed(x, variant)
                  ELSE xfer' = [x EXCEPT !.pc = "cross_post",
                                  !.target = xfer.msg.pageId,
                                  !.calls = Append(@, "POST_COMMENT"),
                                  !.ui = Append(@, Progress(70))]
  /\ UNCHANGED <<variant, srcPages, currentPage, selection, nextId, tokenScopes,
                 feed, nextCommentId, dstVars, codec, rfVars>>

\* part_000, after the comment response: remove the clone and report, or rethrow
CrossAfterPost ==
  /\ xfer.pc = "cross_post"
  /\ \/ \E ts \in 1..MaxTs :
          /\ feed' = PostComment(feed, nextCommentId,
                       WireText(JSONstringify(
                         TransferData(xfer.nodeData, xfer.node.name, xfer.target, ts))))
          /\ nextCommentId' = nextCommentId + 1
          /\ srcPages' = RemoveNode(srcPages, xfer.clone)
          /\ xfer' = [xfer EXCEPT !.pc = "done", !.outcome = "success",
                        !.ui = @ \o <<Progress(90), Progress(100), Complete(TRUE)>>]
     \/ \* the endpoint refuses the comment, or the request fails
        /\ xfer' = Failed(xfer, variant)
        /\ UNCHANGED <<feed, nextCommentId, srcPages>>
     \/ \* the endpoint stores the comment and the response never arrives:
        \* fetch rejects, the catch reports the failure and the clone stays
        \E ts \in 1..MaxTs :
          /\ feed' = PostComment(feed, nextCommentId,
                       WireText(JSONstringify(
                         TransferData(xfer.nodeData, xfer.node.name, xfer.target, ts))))
          /\ nextCommentId' = nextCommentId + 1
          /\ xfer' = Failed(xfer, variant)
          /\ UNCHANGED srcPages
  /\ selection' = Prune(selection, srcPages', currentPage)
  /\ UNCHANGED <<variant, currentPage, nextId, tokenScopes, dstVars, codec, rfVars>>

\* ------------------------------------------------- the source session alone
NextOrch ==
  \/ SelectionChange
  \/ ValidateToken
  \/ HandleTransfer
  \/ SameAfterLoad
  \/ SameAfterLoadPage
  \/ SameAfterSetPage
  \/ CrossAfterExport
  \/ CrossAfterScopes
  \/ CrossAfterSerialize
  \/ CrossAfterGetFile
  \/ CrossAfterPost

InitOrch == \E v \in {"code_ts", "part_000"} : InitWith(v, "DEST")

SpecOrch == InitOrch /\ [][NextOrch]_vars

\* --------------------------------------------------- createNodeFromSerialized
CreatableTypes == {"FRAME", "RECTANGLE", "ELLIPSE", "TEXT", "GROUP", "COMPONENT"}

\* the switch on nodeData.type: unknown types become frames
CreatedType_Mut(t) == IF t \in CreatableTypes THEN t ELSE "RECTANGLE"
CreatedType(t) == IF t \in CreatableTypes THEN t ELSE "FRAME"

\* "appendChild" in createdNode
CanAppend(type) == type \in {"FRAME", "GROUP", "COMPONENT"}

NullNode == [type |-> "NULL"]

\* figma.createFrame() and its siblings: a new element with the host's defaults
HostNew(type, id) ==
  CASE type = "FRAME" -> Frame(id, "Frame", "0", "INSIDE", "0", "NONE", <<>>)
    [] type = "COMPONENT" -> Component(id, "Component", "0", "INSIDE", "0", "NONE", <<>>)
    [] type = "RECTANGLE" -> Rectangle(id, "Rectangle", "0", "INSIDE", "0")
    [] type = "ELLIPSE" -> Ellipse(id, "Ellipse", "0", "INSIDE")
    [] type = "TEXT" -> Text(id, "Text", "0", "OUTSIDE", "", "Inter")
    [] type = "GROUP" -> Group(id, "Group", "0", <<>>)

\* the properties written when the new element has them and the data defines them
AppliedKeys == {"x", "cornerRadius"}
\* the properties written when the data's value is truthy
TruthyKeys == {"characters", "layoutMode"}

\* createdNode after "Apply properties", children still empty
ApplyProperties(created, nodeData) ==
  [k \in DOMAIN created |->
     IF k = "name" THEN nodeData.name
     ELSE IF k \in AppliedKeys /\ k \in DOMAIN nodeData THEN nodeData[k]
     ELSE IF k \in TruthyKeys /\ k \in DOMAIN nodeData /\ nodeData[k] # ""
       THEN nodeData[k]
     ELSE created[k]]

\* positions of the payload tree: <<>> is the root, <<i>> its i-th child, ...
RECURSIVE Paths(_, _)
Paths(nodeData, path) ==
  {path} \cup
    (IF "children" \in DOMAIN nodeData
       THEN UNION {Paths(nodeData.children[i], Append(path, i)) :
                     i \in DOMAIN nodeData.children}
       ELSE {})

\* The element built from nodeData, or NullNode.  `fails` are the positions at
\* which a host call throws inside the try block: that call returns null, and the
\* parent skips the child.
RECURSIVE createNodeFromSerialized(_, _, _, _)
createNodeFromSerialized(nodeData, newId, path, fails) ==
  IF path \in fails
    THEN NullNode
    ELSE LET type == CreatedType(nodeData.type)
             createdNode == ApplyProperties(HostNew(type, newId), nodeData)
         IN IF ~CanAppend(type) \/ "children" \notin DOMAIN nodeData
              THEN createdNode
              ELSE LET built == [i \in DOMAIN nodeData.children |->
                                     createNodeFromSerialized(nodeData.children[i],
                                       Append(newId, i), Append(path, i), fails)]
                   IN [createdNode EXCEPT
                         !.children = SelectSeq(built, LAMBDA c : c # NullNode)]

\* where the host may throw while the relay's consumer reconstructs: nowhere, or
\* at the root
FailSets(nodeData) == {{}, {<<>>}}

\* --------------------------------------------- checkAndApplyPendingTransfers
\* c.message.startsWith("[FIGMA_DESIGN_TRANSFER]")
StartsWithMarker_Mut(text) == TRUE
StartsWithMarker(text) == Len(text) >= 1 /\ text[1] = Marker

\* data.comments.filter(...)
TransferComments(comments) == SelectSeq(comments, LAMBDA c : StartsWithMarker(c.message))

\* transferComments[transferComments.length - 1]
LatestComment_Mut(tc) == tc[1]
LatestComment(tc) == tc[Len(tc)]

\* message.replace("[FIGMA_DESIGN_TRANSFER]\n", ""): the first occurrence goes
ReplaceMarker(text) ==
  LET hits == {k \in 1..(Len(text) - 1) : text[k] = Marker /\ text[k + 1] = Newline}
  IN IF hits = {}
       THEN text
       ELSE LET k == CHOOSE h \in hits : \A j \in hits : h <= j
            IN SubSeq(text, 1, k - 1) \o SubSeq(text, k + 2, Len(text))

\* DELETE /v1/files/:key/comments/:id as the endpoint applies it: a comment that
\* is no longer there is answered with an error status, which the caller never reads
DeleteComment_Mut(f, id) ==
  IF \E k \in DOMAIN f : f[k].id = id THEN SelectSeq(f, LAMBDA c : c.id # id) ELSE <<>>
DeleteComment(f, id) == SelectSeq(f, LAMBDA c : c.id # id)

Free == {i \in 1..MaxInv : inv[i].pc = "idle"}
Active == {i \in 1..MaxInv : inv[i].pc # "idle"}
ActiveOf(s) == {i \in Active : inv[i].sess = s}

\* a new invocation starts in the first free slot, at await getAsync("figmaApiToken")
Begin(s) ==
  /\ Free # {}
  /\ Len(dstNodes) + Cardinality(Active) < MaxInv
  /\ LET i == CHOOSE f \in Free : \A g \in Free : f <= g
     IN inv' = [inv EXCEPT ![i] = [IdleInv EXCEPT !.pc = "token", !.sess = s]]

\* the invocation returns: its slot is free again
Finish(i) == inv' = [inv EXCEPT ![i] = IdleInv]

\* setTimeout(checkAndApplyPendingTransfers, 100)
StartupCheck(s) ==
  /\ timers[s] = "init"
  /\ timers' = [timers EXCEPT ![s] = "checked"]
  /\ Begin(s)
  /\ UNCHANGED <<srcVars, codec, rfVars, feed, nextCommentId, dstPages, dstNodes, dstToken, dstFileKey>>

\* setTimeout(() => startTransferPolling(), 1000): the interval is set
StartPolling(s) ==
  /\ timers[s] = "checked"
  /\ timers' = [timers EXCEPT ![s] = "polling"]
  /\ UNCHANGED <<srcVars, codec, rfVars, feed, nextCommentId, dstPages, dstNodes, dstToken, dstFileKey, inv>>

\* the interval callback, every 2000 ms
Tick(s) ==
  /\ timers[s] = "polling"
  /\ Begin(s)
  /\ UNCHANGED <<srcVars, codec, rfVars, feed, nextCommentId, dstPages, dstNodes, dstToken,
                 dstFileKey, timers>>

\* !token || !figma.fileKey
NoCredentials_Mut(token, fileKey) == ~token
NoCredentials(token, fileKey) == ~token \/ fileKey = ""

\* after the token read: return, or issue GET comments
InvToken(i) ==
  /\ inv[i].pc = "token"
  /\ IF NoCredentials(dstToken, dstFileKey)
       THEN Finish(i)
       ELSE inv' = [inv EXCEPT ![i].pc = "fetch"]
  /\ UNCHANGED <<srcVars, codec, rfVars, feed, nextCommentId, dstPages, dstNodes, dstToken,
                 dstFileKey, timers>>

\* the comments response arrives (or the request fails): await response.json()
InvFetchWith(i, response) ==
  /\ inv[i].pc = "fetch"
  /\ IF response = "ok"
       THEN inv' = [inv EXCEPT ![i].pc = "json"]
       ELSE Finish(i)
  /\ UNCHANGED <<srcVars, codec, rfVars, feed, nextCommentId, dstPages, dstNodes, dstToken,
                 dstFileKey, timers>>

InvFetch(i) == \E response \in {"ok", "not_ok", "rejected"} : InvFetchWith(i, response)

\* with the comments in hand: filter, take the last, strip, parse, and call
\* applyPendingTransfer up to its await loadAllPagesAsync()
InvJson(i) ==
  /\ inv[i].pc = "json"
  /\ LET tc == TransferComments(feed)
     IN IF Len(tc) = 0
          THEN Finish(i)
          ELSE LET latest == LatestComment(tc)
                   str == ReplaceMarker(latest.message)
               IN IF ~JSONparses(str)
                    THEN \* JSON.parse throws: caught and logged
                         Finish(i)
                    ELSE inv' = [inv EXCEPT ![i].pc = "load",
                                            ![i].latest = latest,
                                            ![i].data = JSONparse(str)]
  /\ UNCHANGED <<srcVars, codec, rfVars, feed, nextCommentId, dstPages, dstNodes, dstToken,
                 dstFileKey, timers>>

\* figma.root.children.find((p) => p.id === targetPageId) finds nothing
PageNotFound_Mut(pages, targetPageId) == FALSE
PageNotFound(pages, targetPageId) == targetPageId \notin pages

\* applyPendingTransfer after loadAllPagesAsync: find the page, build the element,
\* select it; back in checkAndApplyPendingTransfers the DELETE is issued whether
\* or not an element came back
InvLoadWith(i, fails) ==
  /\ inv[i].pc = "load"
  /\ LET td == inv[i].data
     IN IF PageNotFound(dstPages, td.targetPageId)
          THEN \* throw new Error(`Target page not found`): rethrown, caught, logged
               /\ Finish(i)
               /\ UNCHANGED dstNodes
          ELSE LET node == createNodeFromSerialized(td.nodeData,
                             <<Len(dstNodes) + 1>>, <<>>, fails)
               IN IF node = NullNode
                    THEN /\ inv' = [inv EXCEPT ![i].pc = "delete"]
                         /\ UNCHANGED dstNodes
                    ELSE /\ inv' = [inv EXCEPT ![i].pc = "delete", ![i].created = TRUE]
                         /\ dstNodes' = Append(dstNodes,
                              [page |-> td.targetPageId, node |-> node,
                               msg |-> inv[i].latest.id])
  /\ UNCHANGED <<srcVars, codec, rfVars, feed, nextCommentId, dstPages, dstToken, dstFileKey, timers>>

InvLoad(i) == \E fails \in FailSets(inv[i].data) : InvLoadWith(i, fails)

\* the DELETE request reaches the endpoint, or fails on the way
InvDeleteWith(i, arrives) ==
  /\ inv[i].pc = "delete"
  /\ feed' = IF arrives THEN DeleteComment(feed, inv[i].latest.id) ELSE feed
  /\ Finish(i)
  /\ UNCHANGED <<srcVars, codec, rfVars, nextCommentId, dstPages, dstNodes, dstToken, dstFileKey, timers>>

InvDelete(i) == \E arrives \in BOOLEAN : InvDeleteWith(i, arrives)

\* ------------------------------------------------- destination: environment
\* handleValidateToken in a destination session stores the token
StoreToken ==
  /\ ~dstToken
  /\ dstToken' = TRUE
  /\ UNCHANGED <<srcVars, codec, rfVars, feed, nextCommentId, dstPages, dstNodes, dstFileKey, timers, inv>>

\* what a sending session serializes: a clone of an element it had selected
RelayPayloads == {deepSerializeNode(CloneNode(n, <<FirstCloneId>>)) : n \in {Frame1}}

\* a sending session's comment POST succeeds (transferToOtherFile)
Publish ==
  /\ nextCommentId <= MaxFeed
  /\ \E nodeData \in RelayPayloads, page \in dstPages, ts \in 1..MaxTs :
       feed' = PostComment(feed, nextCommentId,
                 WireText(JSONstringify(TransferData(nodeData, nodeData.name, page, ts))))
  /\ nextCommentId' = nextCommentId + 1
  /\ UNCHANGED <<srcVars, dstVars, codec, rfVars>>

\* another user of the feed comments: plain text, the marker with no JSON after
\* it, or the JSON of an envelope pasted without the marker
ForeignTexts ==
  {<<Garbage>>, <<Marker, Newline, Garbage>>}
    \cup {JSONstringify(TransferData(nd, nd.name, InitSrcPages[1].id, MaxTs)) :
            nd \in RelayPayloads}

ExternalComment ==
  /\ nextCommentId <= MaxFeed
  /\ \E text \in ForeignTexts : feed' = PostComment(feed, nextCommentId, text)
  /\ nextCommentId' = nextCommentId + 1
  /\ UNCHANGED <<srcVars, dstVars, codec, rfVars>>

\* a user of the destination document deletes a page (never the first one)
DeletePage ==
  /\ Cardinality(dstPages) > 1
  /\ \E p \in dstPages \ {InitSrcPages[1].id} : dstPages' = dstPages \ {p}
  /\ UNCHANGED <<srcVars, codec, rfVars, feed, nextCommentId, dstNodes, dstToken, dstFileKey, timers, inv>>

\* the destination sessions, the feed and its other users
InitPoll == \E k \in {"", "DEST"} : InitWith("part_000", k)

Next ==
  \/ \E s \in Sess : StartupCheck(s)
  \/ \E s \in Sess : StartPolling(s)
  \/ \E s \in Sess : Tick(s)
  \/ \E i \in 1..MaxInv : InvToken(i)
  \/ \E i \in 1..MaxInv : InvFetch(i)
  \/ \E i \in 1..MaxInv : InvJson(i)
  \/ \E i \in 1..MaxInv : InvLoad(i)
  \/ \E i \in 1..MaxInv : InvDelete(i)
  \/ StoreToken
  \/ Publish
  \/ ExternalComment
  \/ DeletePage

Spec == InitPoll /\ [][Next]_vars

\* one destination session alone: only the first session's timers run
LoneSession == {s \in Sess : \A t \in Sess : s <= t}

NextOne ==
  \/ \E s \in LoneSession : StartupCheck(s)
  \/ \E s \in LoneSession : StartPolling(s)
  \/ \E s \in LoneSession : Tick(s)
  \/ \E i \in 1..MaxInv : InvToken(i)
  \/ \E i \in 1..MaxInv : InvFetch(i)
  \/ \E i \in 1..MaxInv : InvJson(i)
  \/ \E i \in 1..MaxInv : InvLoad(i)
  \/ \E i \in 1..MaxInv : InvDelete(i)
  \/ StoreToken
  \/ Publish
  \/ ExternalComment
  \/ DeletePage

SpecOne == InitPoll /\ [][NextOne]_vars

\* Scheduling: a timer that is due fires, and an awaited host or network call
\* settles.  The requests of a session that keeps polling do not fail for ever,
\* and neither does the host.
Fairness ==
  /\ \A s \in Sess : WF_vars(StartupCheck(s)) /\ WF_vars(StartPolling(s)) /\ WF_vars(Tick(s))
  /\ \A i \in 1..MaxInv :
       /\ WF_vars(InvToken(i))
       /\ WF_vars(InvFetch(i)) /\ SF_vars(InvFetchWith(i, "ok"))
       /\ WF_vars(InvJson(i))
       /\ WF_vars(InvLoad(i)) /\ SF_vars(InvLoadWith(i, {}))
       /\ WF_vars(InvDelete(i)) /\ SF_vars(InvDeleteWith(i, TRUE))

InitLive == InitWith("part_000", "DEST")

SpecLive == InitLive /\ [][Next]_vars /\ Fairness

\* ------------------------------------------------------------ codec bench
\* One element is serialized; the data is then either reconstructed directly
\* (applyPendingTransfer from its page lookup on), or published to the feed and
\* listed back by the consumer's filter, strip and parse.
Frame3 == Frame(<<5>>, "Row", "0", "INSIDE", "4", "HORIZONTAL",
                << Rectangle(<<5, 1>>, "left", "0", "INSIDE", "0"),
                   Ellipse(<<5, 2>>, "dot", "20", "INSIDE"),
                   Text(<<5, 3>>, "cap", "40", "OUTSIDE", "ok", "Inter") >>)

CodecElements ==
  { Frame1, Rect2, Frame3,
    Rectangle(<<3>>, "ring", "5", "CENTER", "8"),
    Text(<<4>>, "title", "0", "OUTSIDE", "Hello", "Roboto"),
    Text(<<4>>, "blank", "0", "OUTSIDE", "", "Inter"),
    Ellipse(<<6>>, "dot", "3", "INSIDE"),
    Group(<<7>>, "pair", "0", << Rectangle(<<7, 1>>, "a", "1", "INSIDE", "0") >>),
    Component(<<8>>, "Button", "0", "INSIDE", "8", "NONE",
              << Text(<<8, 1>>, "txt", "0", "OUTSIDE", "Go", "Inter") >>),
    [id |-> <<9>>, type |-> "VECTOR", name |-> "path", x |-> "7", strokeAlign |-> "CENTER"],
    [Frame(<<10>>, "inst", "3", "INSIDE", "2", "VERTICAL",
           << Rectangle(<<10, 1>>, "part", "1", "INSIDE", "0"),
              Ellipse(<<10, 2>>, "knob", "2", "INSIDE") >>) EXCEPT !.type = "INSTANCE"] }

InitCodec ==
  /\ InitDoc("part_000", "DEST")
  /\ \E x \in CodecElements : codec = [IdleCodec EXCEPT !.pc = "start", !.x = x]
  /\ NoRecentFiles

\* deepSerializeNode(clonedNode)
CodecSerialize ==
  /\ codec.pc = "start"
  /\ codec' = [codec EXCEPT !.pc = "serialized", !.nodeData = deepSerializeNode(codec.x)]
  /\ UNCHANGED <<srcVars, dstVars, rfVars, feed, nextCommentId>>

\* the sets of positions at which the host may throw during one reconstruction
FailChoices(nodeData) ==
  {f \in SUBSET Paths(nodeData, <<>>) : Cardinality(f) <= MaxFails}

\* What the failed constructions leave in the document.  `late` are the failing
\* positions where the throw comes after figma.createXxx() returned: that element
\* exists, parented to the current page, and the catch does not remove it.
RECURSIVE Leftovers(_, _, _, _, _)
Leftovers(nodeData, newId, path, fails, late) ==
  IF path \in fails
    THEN IF path \in late THEN {HostNew(CreatedType(nodeData.type), newId)} ELSE {}
    ELSE IF CanAppend(CreatedType(nodeData.type)) /\ "children" \in DOMAIN nodeData
      THEN UNION {Leftovers(nodeData.children[i], Append(newId, i), Append(path, i),
                            fails, late) : i \in DOMAIN nodeData.children}
      ELSE {}

\* figma.createXxx() parents the new element to the page being viewed;
\* figma.group([], targetPage) parents it to the target page
OnTargetWhenCreated(type, sameView) == sameView \/ type = "GROUP"

LastOf(trace, start) == IF trace = <<>> THEN start ELSE trace[Len(trace)]

\* The reparenting steps of one reconstruction: after each host call that creates
\* or moves an element, the set of payload positions whose element is a direct
\* child of the target page.  `onPage` is that set before the call for `path`
\* starts, `sameView` says that the page being viewed is the target page.
RECURSIVE BuildTrace(_, _, _, _, _, _)
RECURSIVE ChildrenTrace(_, _, _, _, _, _, _)
BuildTrace(nodeData, path, onPage, sameView, fails, late) ==
  LET type == CreatedType(nodeData.type)
      created == IF OnTargetWhenCreated(type, sameView) THEN onPage \cup {path} ELSE onPage
  IN IF path \in fails
       THEN IF path \in late THEN <<created>> ELSE <<>>
       ELSE LET kids == IF CanAppend(type) /\ "children" \in DOMAIN nodeData
                          THEN ChildrenTrace(nodeData, path, 1, created, sameView, fails, late)
                          ELSE <<>>
            IN <<created>> \o kids \o
               \* targetPage.appendChild(createdNode)
               <<LastOf(kids, created) \cup {path}>>

\* the for loop over nodeData.children from the i-th child on
ChildrenTrace(nodeData, path, i, onPage, sameView, fails, late) ==
  IF i > Len(nodeData.children)
    THEN <<>>
    ELSE LET cpath == Append(path, i)
             child == BuildTrace(nodeData.children[i], cpath, onPage, sameView, fails, late)
             after == LastOf(child, onPage)
             \* createdNode.appendChild(childNode) when the call returned an element
             moved == IF cpath \in fails THEN <<>> ELSE <<after \ {cpath}>>
         IN child \o moved \o
            ChildrenTrace(nodeData, path, i + 1, LastOf(moved, after), sameView, fails, late)

\* applyPendingTransfer(nodeData, page) once the page is found, with the session
\* showing page `cur`
CodecApply ==
  /\ codec.pc = "serialized"
  /\ \E page \in dstPages, cur \in dstPages, fails \in FailChoices(codec.nodeData) :
       \E late \in SUBSET fails :
         LET createdNode == createNodeFromSerialized(codec.nodeData, <<1>>, <<>>, fails)
         IN codec' = [codec EXCEPT
                        !.pc = "built", !.page = page, !.cur = cur,
                        !.fails = fails, !.late = late,
                        !.result = createdNode,
                        !.left = Leftovers(codec.nodeData, <<1>>, <<>>, fails, late),
                        !.trace = BuildTrace(codec.nodeData, <<>>, {}, cur = page,
                                             fails, late),
                        !.report = IF createdNode # NullNode THEN "applied" ELSE "failed"]
  /\ UNCHANGED <<srcVars, dstVars, rfVars, feed, nextCommentId>>

\* transferToOtherFile from "Prepare transfer data" to the accepted comment POST
CodecPublish ==
  /\ codec.pc = "serialized"
  /\ nextCommentId <= MaxFeed
  /\ \E page \in dstPages, ts \in 1..MaxTs :
       LET transferData == TransferData(codec.nodeData, codec.x.name, page, ts)
       IN /\ feed' = PostComment(feed, nextCommentId, WireText(JSONstringify(transferData)))
          /\ codec' = [codec EXCEPT !.pc = "posted", !.page = page,
                                    !.envelope = transferData]
  /\ nextCommentId' = nextCommentId + 1
  /\ UNCHANGED <<srcVars, dstVars, rfVars>>

\* a comment the consumer would parse: what JSON.parse returns for it, or NoData
\* when JSON.parse throws
Decoded(c) ==
  LET str == ReplaceMarker(c.message)
  IN IF JSONparses(str) THEN JSONparse(str) ELSE NoData

\* checkAndApplyPendingTransfers: GET comments, filter by the marker, strip, parse
CodecList ==
  /\ codec.pc = "posted"
  /\ LET tc == TransferComments(feed)
     IN codec' = [codec EXCEPT !.pc = "listed",
                                !.listed = [k \in DOMAIN tc |-> Decoded(tc[k])]]
  /\ UNCHANGED <<srcVars, dstVars, rfVars, feed, nextCommentId>>

NextCodec ==
  \/ CodecSerialize
  \/ CodecApply
  \/ CodecPublish
  \/ CodecList
  \/ ExternalComment

SpecCodec == InitCodec /\ [][NextCodec]_vars

\* ------------------------------------------------------------ recent files
RecentLimit == 20

FileData(key) == [key |-> key, name |-> "File"]

\* the file keys get-pages is asked for: the oldest and the newest file a full
\* list holds, and two the list does not hold
RemoteKeys == {1, RecentLimit, RecentLimit + 1, RecentLimit + 2}

\* array.slice(0, n)
Slice(list, n) == SubSeq(list, 1, IF Len(list) < n THEN Len(list) ELSE n)

\* addToRecentFiles between its two awaits: filter, unshift, slice
Updated_Mut(list, file) == Slice(<<file>> \o list, RecentLimit)
Updated(list, file) ==
  Slice(<<file>> \o SelectSeq(list, LAMBDA f : f.key # file.key), RecentLimit)

\* the list after n files were added one after another, file 1 first
Prefilled(n) == [i \in 1..n |-> FileData(n + 1 - i)]

InFlight == {h \in 1..MaxHandlers : getPages[h].pc \notin {"idle", "done"}}
Adding == {h \in 1..MaxHandlers : getPages[h].pc \in {"read", "write"}}

\* onmessage "get-pages" for a file that is not the current one: handleGetPages
\* up to await fetch(`/v1/files/${fileKey}`)
GetPages(h, fileKey) ==
  /\ getPages[h].pc \in {"idle", "done"}
  /\ Len(addLog.calls) + Cardinality(InFlight) < MaxAdds
  /\ getPages' = [getPages EXCEPT ![h] = [IdleGetPages EXCEPT !.pc = "fetch",
                                                             !.fileKey = fileKey]]
  /\ UNCHANGED <<srcVars, dstVars, codec, feed, nextCommentId, recentFiles, addLog>>

\* after the file response: throw when it is not ok, else await response.json()
GpAfterFetch(h) ==
  /\ getPages[h].pc = "fetch"
  /\ \E ok \in BOOLEAN :
       getPages' = IF ok
                     THEN [getPages EXCEPT ![h].pc = "json"]
                     ELSE [getPages EXCEPT ![h].pc = "done", ![h].ui = "error"]
  /\ UNCHANGED <<srcVars, dstVars, codec, feed, nextCommentId, recentFiles, addLog>>

\* after response.json(): addToRecentFiles up to await getAsync("recentFiles")
GpAfterJson(h) ==
  /\ getPages[h].pc = "json"
  /\ getPages' = [getPages EXCEPT ![h].pc = "read"]
  /\ UNCHANGED <<srcVars, dstVars, codec, feed, nextCommentId, recentFiles, addLog>>

\* getAsync resolves with what is stored; up to await setAsync("recentFiles", updated)
GpRead(h) ==
  /\ getPages[h].pc = "read"
  /\ getPages' = [getPages EXCEPT ![h].pc = "write", ![h].recentFiles = recentFiles]
  /\ UNCHANGED <<srcVars, dstVars, codec, feed, nextCommentId, recentFiles, addLog>>

\* setAsync stores the list computed from what was read; handleGetPages posts
\* pages-list
GpWrite(h) ==
  /\ getPages[h].pc = "write"
  /\ recentFiles' = Updated(getPages[h].recentFiles, FileData(getPages[h].fileKey))
  /\ addLog' = [addLog EXCEPT !.calls = Append(@, getPages[h].fileKey)]
  /\ getPages' = [getPages EXCEPT ![h].pc = "done", ![h].ui = "pages-list"]
  /\ UNCHANGED <<srcVars, dstVars, codec, feed, nextCommentId>>

\* the list holds what earlier runs of the plugin stored
InitRecent ==
  /\ InitDoc("part_000", "DEST")
  /\ codec = IdleCodec
  /\ getPages = [h \in 1..MaxHandlers |-> IdleGetPages]
  /\ \E n \in {0, 1, RecentLimit - 2, RecentLimit - 1, RecentLimit} :
       /\ recentFiles = Prefilled(n)
       /\ addLog = [prefilled |-> n, calls |-> <<>>]

NextRecent ==
  \/ \E h \in 1..MaxHandlers, fileKey \in RemoteKeys : GetPages(h, fileKey)
  \/ \E h \in 1..MaxHandlers : GpAfterFetch(h)
  \/ \E h \in 1..MaxHandlers : GpAfterJson(h)
  \/ \E h \in 1..MaxHandlers : GpRead(h)
  \/ \E h \in 1..MaxHandlers : GpWrite(h)

\* get-pages messages handled as they come, their awaits interleaved
SpecRecent == InitRecent /\ [][NextRecent]_vars

\* addToRecentFiles is entered only when no other call of it is running
GpAfterJsonAlone(h) == Adding = {} /\ GpAfterJson(h)

NextRecentSeq ==
  \/ \E h \in 1..MaxHandlers, fileKey \in RemoteKeys : GetPages(h, fileKey)
  \/ \E h \in 1..MaxHandlers : GpAfterFetch(h)
  \/ \E h \in 1..MaxHandlers : GpAfterJsonAlone(h)
  \/ \E h \in 1..MaxHandlers : GpRead(h)
  \/ \E h \in 1..MaxHandlers : GpWrite(h)

\* the calls of addToRecentFiles run one after another
SpecRecentSeq == InitRecent /\ [][NextRecentSeq]_vars

\* ---------------------------------------------------------------- claims
CrossRequest == xfer.pc # "idle" /\ xfer.selLen = 1 /\ ~IsCurrentFile(xfer.msg)
SameRequest == xfer.pc # "idle" /\ xfer.selLen = 1 /\ IsCurrentFile(xfer.msg)

\* C2: a cross-document transfer that fails after the clone was created has
\* discarded the clone when it returns: the source document is as it was before
\* the request.
C2_FailedCrossTransferDiscardsClone ==
  (CrossRequest /\ xfer.pc = "done" /\ xfer.outcome = "failed" /\ xfer.clone # <<>>)
    => srcPages = xfer.before

\* C3: a same-document transfer that fails (page id not found, or no target
\* given) has discarded its clone when it returns: the document holds no duplicate
\* of the selected element.
C3_FailedSameTransferDiscardsClone ==
  (SameRequest /\ xfer.pc = "done" /\ xfer.outcome = "failed")
    => srcPages = xfer.before

\* C6: a transfer request made with zero or several selected elements ends at
\* once with the error posted, and with no clone, no network call and no change
\* to the source document or the destination feed.
C6_BadSelectionFailsBeforeAnyCall ==
  (xfer.pc # "idle" /\ xfer.selLen # 1)
    => /\ xfer.pc = "done"
       /\ xfer.outcome = "failed"
       /\ xfer.ui = <<ErrorMsg>>
       /\ xfer.calls = <<>>
       /\ xfer.clone = <<>>
       /\ srcPages = xfer.before
       /\ feed = xfer.feedBefore

C6_Witness ==
  /\ xfer.pc = "done"
  /\ xfer.selLen = MaxSel
  /\ ~IsCurrentFile(xfer.msg)
  /\ xfer.ui = <<ErrorMsg>>

\* C7: a cross-document transfer that read an absent scope record, or one without
\* write access, issues no comment POST and no other call to the destination,
\* leaves the feed as it was, and (part_000) fails without having cloned.
ScopeLacking(x) == ~x.scopes.present \/ ~x.scopes.hasWriteAccess

C7_NoWriteScopeNoPost ==
  (CrossRequest /\ xfer.pc # "cross_scopes" /\ ScopeLacking(xfer))
    => /\ xfer.calls = <<>>
       /\ feed = xfer.feedBefore
       /\ variant = "part_000"
            => xfer.pc = "done" /\ xfer.outcome = "failed" /\ xfer.clone = <<>>

C7_Witness ==
  /\ variant = "part_000"
  /\ CrossRequest
  /\ xfer.pc = "done"
  /\ ~xfer.scopes.present
  /\ xfer.ui = <<Complete(FALSE), ErrorMsg>>

FeedIds == {feed[k].id : k \in DOMAIN feed}
CommentOf(id) == feed[CHOOSE k \in DOMAIN feed : feed[k].id = id]

\* a comment that carries the marker and decodes to an envelope
WellFormed(c) == StartsWithMarker(c.message) /\ JSONparses(ReplaceMarker(c.message))
Envelope(c) == JSONparse(ReplaceMarker(c.message))

PendingEnvelopes == {k \in DOMAIN feed : WellFormed(feed[k])}
AppliedIds == {dstNodes[k].msg : k \in DOMAIN dstNodes}

\* C1: a DELETE is in flight only for a message whose root element was created;
\* after a failed reconstruction the message is left in the feed.
C1_DeleteOnlyAfterReconstruction ==
  \A i \in 1..MaxInv : inv[i].pc = "delete" => inv[i].created

\* C4: within one session no invocation of checkAndApplyPendingTransfers starts
\* while an earlier one is still suspended at an await.
C4_NoOverlappingPoll ==
  \A s \in Sess : Cardinality(ActiveOf(s)) <= 1

\* C5: the message a cycle claims is the pending envelope with the latest
\* timestamp, wherever it sits in the list; feed order only breaks ties.
C5_ClaimsLatestCreatedAt ==
  [][\A i \in 1..MaxInv :
       (inv[i].pc = "json" /\ inv'[i].pc = "load")
         => \A k \in PendingEnvelopes :
              LET mine == Envelope(inv'[i].latest).timestamp
                  other == Envelope(feed[k]).timestamp
                  pos == CHOOSE j \in DOMAIN feed : feed[j] = inv'[i].latest
              IN other < mine \/ (other = mine /\ k <= pos)]_vars

\* the element is the payload, position by position: kind, name, children in order
RECURSIVE SameShape(_, _)
SameShape(node, nodeData) ==
  /\ node.type = nodeData.type
  /\ node.name = nodeData.name
  /\ HasChildren(node) = ("children" \in DOMAIN nodeData)
  /\ HasChildren(node) =>
       /\ Len(node.children) = Len(nodeData.children)
       /\ \A k \in DOMAIN node.children :
            SameShape(node.children[k], nodeData.children[k])

C8_RemovedOnlyIfReconstructed ==
  \A id \in 1..(nextCommentId - 1) : id \notin FeedIds => id \in AppliedIds

C8_DeletesWhatItApplied ==
  \A i \in 1..MaxInv :
    (inv[i].pc = "delete" /\ inv[i].created)
      => \E k \in DOMAIN dstNodes :
           /\ dstNodes[k].msg = inv[i].latest.id
           /\ SameShape(dstNodes[k].node, inv[i].data.nodeData)

C8_SeparateCompleteCopies ==
  \A k \in DOMAIN dstNodes :
    /\ \E nd \in RelayPayloads : SameShape(dstNodes[k].node, nd)
    /\ \A j \in DOMAIN dstNodes : j # k => dstNodes[j].node.id # dstNodes[k].node.id

\* C8: with two sessions polling one feed the race costs a duplicate element and
\* nothing else: a message leaves the feed only once it was reconstructed, a
\* delete removes the message that was applied, and every application is a
\* separate, complete copy.
C8_RaceCostsOnlyADuplicate ==
  /\ C8_RemovedOnlyIfReconstructed
  /\ C8_DeletesWhatItApplied
  /\ C8_SeparateCompleteCopies

\* C9: with a stored credential, a known file key, a reachable endpoint and an
\* existing target page, every envelope in the feed is eventually reconstructed
\* and removed, whatever else the feed holds.  (The antecedent keeps to the runs
\* in which the sessions can go on polling within MaxInv.)
C9_EveryEnvelopeEventuallyApplied ==
  \A id \in 1..MaxFeed :
    [](Len(dstNodes) < MaxInv) =>
      ((/\ id \in FeedIds
        /\ WellFormed(CommentOf(id))
        /\ Envelope(CommentOf(id)).targetPageId = InitSrcPages[1].id
        /\ dstToken)
         ~> (id \in AppliedIds /\ id \notin FeedIds))

\* C10: a marker message that does not decode is never deleted, and does not keep
\* a cycle from claiming a well-formed envelope that is in the feed with it.
C10_MalformedIgnored ==
  [][\A i \in 1..MaxInv :
       /\ (inv[i].pc = "json" /\ inv'[i].pc # "json" /\ PendingEnvelopes # {})
            => inv'[i].pc = "load" /\ WellFormed(inv'[i].latest)
       /\ inv'[i].pc = "delete" => WellFormed(inv'[i].latest)]_vars

\* the text begins with the reserved marker
HasMarker(text) == text # <<>> /\ Head(text) = Marker

\* the comments of a feed that do not begin with the marker, in feed order
UnrelatedOf(f) == SelectSeq(f, LAMBDA c : ~HasMarker(c.message))
Unrelated == {k \in DOMAIN feed : ~HasMarker(feed[k].message)}

\* C11: no cycle parses, applies or deletes a comment that does not begin with the
\* marker: the comment a cycle holds after its parse carries the marker, every
\* element in the document came from a marker comment, and a step that changes
\* the feed leaves every unrelated comment in it, in place among the others.
C11_UnrelatedCommentsUntouched ==
  [][/\ \A i \in 1..MaxInv :
          inv'[i].pc \in {"load", "delete"} => HasMarker(inv'[i].latest.message)
     /\ Len(dstNodes') > Len(dstNodes) =>
          \E i \in 1..MaxInv :
            /\ inv[i].pc = "load"
            /\ inv[i].latest.id = dstNodes'[Len(dstNodes')].msg
            /\ HasMarker(inv[i].latest.message)
     /\ LET before == UnrelatedOf(feed)
            after == UnrelatedOf(feed')
        IN Len(after) >= Len(before) /\ SubSeq(after, 1, Len(before)) = before]_vars

\* an envelope was applied and deleted while an unrelated comment sat in the feed
C11_Witness ==
  /\ Unrelated # {}
  /\ \E k \in DOMAIN dstNodes : dstNodes[k].msg \notin FeedIds
  /\ \E k \in Unrelated : JSONparses(feed[k].message)

OthersOf(f, id) == SelectSeq(f, LAMBDA c : c.id # id)

\* C13: a message that was deleted is in no later listing, and the DELETE of a
\* cycle touches that one message only: when the message is already gone (another
\* cycle consumed it first) the feed stays as it is, the cycle ends normally and
\* nothing else changes.
C13_ConsumeTwiceIsNoOp ==
  [][/\ \A id \in 1..(nextCommentId - 1) : id \notin FeedIds => id \notin FeedIds'
     /\ \A i \in 1..MaxInv :
          (inv[i].pc = "delete" /\ inv'[i].pc # "delete")
            => LET id == inv[i].latest.id
               IN /\ inv'[i] = IdleInv
                  /\ OthersOf(feed', id) = OthersOf(feed, id)
                  /\ feed' # feed => id \notin FeedIds'
                  /\ id \notin FeedIds => feed' = feed
                  /\ dstNodes' = dstNodes /\ dstPages' = dstPages]_vars

\* two cycles applied the same message and both have finished; the message is
\* gone and another message is still in the feed
C13_Witness ==
  /\ Active = {}
  /\ feed # <<>>
  /\ \E j, k \in DOMAIN dstNodes :
       j # k /\ dstNodes[j].msg = dstNodes[k].msg /\ dstNodes[j].msg \notin FeedIds

\* a reconstruction whose root was built from data with children, some of which failed
ChildrenFailed ==
  /\ codec.pc = "built"
  /\ <<>> \notin codec.fails
  /\ "children" \in DOMAIN codec.nodeData
  /\ CanAppend(CreatedType(codec.nodeData.type))

\* the positions of the root's children whose own construction did not fail
BuiltChildren == {i \in DOMAIN codec.nodeData.children : <<i>> \notin codec.fails}

\* the root holds exactly the children that were built, in the data's order
C14_KeepsBuiltChildrenInOrder ==
  ChildrenFailed
    => LET kids == codec.result.children
           origin(j) == kids[j].id[Len(kids[j].id)]
       IN /\ codec.result # NullNode
          /\ Len(kids) = Cardinality(BuiltChildren)
          /\ {origin(j) : j \in DOMAIN kids} = BuiltChildren
          /\ \A j, k \in DOMAIN kids : j < k => origin(j) < origin(k)
          /\ \A j \in DOMAIN kids :
               /\ kids[j].type = codec.nodeData.children[origin(j)].type
               /\ kids[j].name = codec.nodeData.children[origin(j)].name

C14_ReportedForTheRoot == ChildrenFailed => codec.report = "applied"

\* nothing of a failed child is on the target page
C14_NoLeftoverOnTargetPage ==
  (ChildrenFailed /\ codec.cur = codec.page) => codec.left = {}

\* C14: when the root is built and k of its n children fail, the root comes back
\* with the n-k built children in their original order, the transfer is reported
\* as applied, and the failed children leave no element on the target page.
C14_FailuresContainedPerSubtree ==
  /\ C14_KeepsBuiltChildrenInOrder
  /\ C14_ReportedForTheRoot
  /\ C14_NoLeftoverOnTargetPage

\* every element of the tree is of a kind createNodeFromSerialized has a case for
RECURSIVE AllSupported(_)
AllSupported(node) ==
  /\ node.type \in CreatableTypes
  /\ HasChildren(node) => \A i \in DOMAIN node.children : AllSupported(node.children[i])

\* the two elements agree on kind, name, every attribute, child count and child
\* order; identifiers are not compared
RECURSIVE SameElement(_, _)
SameElement(a, b) ==
  /\ DOMAIN a = DOMAIN b
  /\ \A k \in DOMAIN a \ {"id", "children"} : a[k] = b[k]
  /\ HasChildren(a) =>
       /\ Len(a.children) = Len(b.children)
       /\ \A i \in DOMAIN a.children : SameElement(a.children[i], b.children[i])

\* C15: for an element of supported kinds, createNodeFromSerialized applied to
\* deepSerializeNode(x), with no host call failing, yields an element equal to x
\* in its attribute groups (geometry, paint with stroke alignment, text with font
\* reference, layout), child count and child order.
C15_RoundTripKeepsAttributes ==
  (codec.pc = "built" /\ codec.fails = {} /\ AllSupported(codec.x))
    => SameElement(codec.result, codec.x)

\* the request names a page to create, or a page the destination does not have
BadDestination == xfer.msg.newPageName # "" \/ xfer.msg.pageId \notin dstPages

\* C16: a cross-document request that asks for a new page, or names a page the
\* destination document does not have, never posts a comment: the feed stays as
\* it was, and once the destination was looked at (part_000) the transfer has
\* failed with its message posted.
C16_OnlyExistingDestinationPage ==
  (CrossRequest /\ BadDestination)
    => /\ \A k \in DOMAIN xfer.calls : xfer.calls[k] # "POST_COMMENT"
       /\ feed = xfer.feedBefore
       /\ xfer.pc # "cross_post"
       /\ (variant = "part_000" /\ xfer.pc = "done")
            => /\ xfer.outcome = "failed"
               /\ SubSeq(xfer.ui, Len(xfer.ui) - 1, Len(xfer.ui)) = <<Complete(FALSE), ErrorMsg>>

\* with write scope and a reachable destination, a request for a new page failed
\* after the destination file had been fetched
C16_Witness ==
  /\ variant = "part_000"
  /\ CrossRequest
  /\ xfer.msg.newPageName # "" /\ xfer.msg.pageId \in dstPages
  /\ xfer.pc = "done" /\ xfer.outcome = "failed"
  /\ xfer.calls = <<"GET_FILE">>
  /\ xfer.ui[Len(xfer.ui) - 2] = Progress(60)

\* a same-document transfer to a page that existed has completed
SameDone ==
  /\ SameRequest
  /\ xfer.pc = "done" /\ xfer.outcome = "success"
  /\ xfer.msg.newPageName = ""

\* C17: after a same-document transfer to an existing page, that page holds its
\* former elements and one more, the clone, which equals the selected element in
\* kind, attributes (text content included), child count and child order; every
\* other page, and with it the selected element, is as it was.
C17_SameDocumentAddsOneDeepCopy ==
  SameDone
    => LET t == FindPage(srcPages, xfer.target)
           now == RemoveNode(srcPages, xfer.clone)
       IN /\ Len(srcPages) = Len(xfer.before)
          /\ t # 0
          /\ Len(srcPages[t].children) = Len(xfer.before[t].children) + 1
          /\ LET clone == srcPages[t].children[Len(srcPages[t].children)]
             IN /\ clone.id = xfer.clone
                /\ SameElement(clone, xfer.node)
          /\ now = xfer.before
          /\ xfer.node \in AllTopNodes(srcPages)

\* the frame with a rectangle and the text "Hi" was copied to the page "Drafts"
C17_Witness ==
  /\ SameDone
  /\ xfer.node = Frame1
  /\ \E t \in DOMAIN srcPages :
       /\ srcPages[t].name = "Drafts"
       /\ srcPages[t].id = xfer.target
       /\ Len(srcPages[t].children) = 1
       /\ srcPages[t].children[1].type = "FRAME"
       /\ Len(srcPages[t].children[1].children) = Len(Frame1.children)
       /\ srcPages[t].children[1].children[2].characters = "Hi"

\* C18: when a cross-document transfer has completed, the source document is
\* what it was before the request: the clone that was serialized is gone, and the
\* selected element is where it was, unmodified.
C18_CrossTransferLeavesSourceAsItWas ==
  (CrossRequest /\ xfer.pc = "done" /\ xfer.outcome = "success")
    => /\ xfer.clone # <<>>
       /\ \A n \in AllTopNodes(srcPages) : n.id # xfer.clone
       /\ xfer.node \in AllTopNodes(srcPages)
       /\ srcPages = xfer.before

\* a frame was cloned, serialized with its children and published; the transfer
\* has completed
C18_Witness ==
  /\ variant = "part_000"
  /\ CrossRequest
  /\ xfer.pc = "done" /\ xfer.outcome = "success"
  /\ xfer.node = Frame1
  /\ Len(xfer.nodeData.children) = Len(Frame1.children)
  /\ Len(feed) = Len(xfer.feedBefore) + 1

\* the two behaviours of the same-document path
Modes == {"stay", "switch"}

\* this step completes a same-document transfer to a page other than the one shown
CompletesSameTransfer ==
  /\ SameRequest
  /\ xfer.pc # "done"
  /\ xfer'.pc = "done" /\ xfer'.outcome = "success"
  /\ xfer'.target # currentPage

\* what the completing step does to the view in each mode
InMode(mode) ==
  IF mode = "stay"
    THEN currentPage' = currentPage /\ selection' = selection
    ELSE currentPage' = xfer'.target /\ selection' = <<xfer'.clone>>

\* C19: whichever of the two modes the user has chosen, the one entry point
\* completes the same-document transfer in that mode.  (Neither the request nor
\* any stored setting carries the choice, so one request stands for both.)
C19_BothModesSelectable ==
  [][CompletesSameTransfer => \A mode \in Modes : InMode(mode)]_vars

\* C19, one mode at a time: every completion stays in place / every completion
\* switches to the target page
C19_AlwaysStays == [][CompletesSameTransfer => InMode("stay")]_vars
C19_AlwaysSwitches == [][CompletesSameTransfer => InMode("switch")]_vars

\* C20: a cycle that finds no stored token, or no file key, returns at once: it
\* issues no request (it never gets to the comments fetch), creates no element
\* and deletes no message.
C20_NoCredentialCycleIsNoOp ==
  [][/\ \A i \in 1..MaxInv :
          (inv[i].pc = "token" /\ inv'[i] # inv[i] /\ (~dstToken \/ dstFileKey = ""))
            => inv'[i] = IdleInv /\ feed' = feed /\ dstNodes' = dstNodes
     /\ dstFileKey = ""
          => /\ \A i \in 1..MaxInv : inv'[i].pc \in {"idle", "token"}
             /\ dstNodes' = <<>>
             /\ \A id \in FeedIds : id \in FeedIds']_vars

\* a session without a file key, its start-up check behind it, polls again while
\* the token is stored and an envelope waits in the feed
C20_Witness ==
  /\ dstFileKey = "" /\ dstToken
  /\ PendingEnvelopes # {}
  /\ \E i \in 1..MaxInv : inv[i].pc = "token" /\ timers[inv[i].sess] = "polling"
  /\ dstNodes = <<>>

\* C21: a payload of a kind the switch has no case for is built as a frame: the
\* call returns an element, of kind FRAME, and that element is what the same
\* payload with kind FRAME would have given (name, attributes, and the children
\* in their order).
C21_UnknownKindBecomesFrame ==
  (codec.pc = "built" /\ codec.fails = {} /\ codec.nodeData.type \notin CreatableTypes)
    => /\ codec.result # NullNode
       /\ codec.report = "applied"
       /\ codec.result.type = "FRAME"
       /\ codec.result.name = codec.nodeData.name
       /\ codec.result.x = codec.nodeData.x
       /\ codec.result =
            createNodeFromSerialized([codec.nodeData EXCEPT !.type = "FRAME"],
                                     <<1>>, <<>>, {})
       /\ "children" \in DOMAIN codec.nodeData =>
            /\ Len(codec.result.children) = Len(codec.nodeData.children)
            /\ \A i \in DOMAIN codec.result.children :
                 /\ codec.result.children[i].type = codec.nodeData.children[i].type
                 /\ codec.result.children[i].name = codec.nodeData.children[i].name

\* an instance with two children was rebuilt as a frame with two children
C21_Witness ==
  /\ codec.pc = "built" /\ codec.fails = {}
  /\ codec.x.type = "INSTANCE"
  /\ codec.result.type = "FRAME"
  /\ Len(codec.result.children) = Len(codec.x.children)

\* no node of the serialized tree has an id property
RECURSIVE CarriesNoId(_)
CarriesNoId(nodeData) ==
  /\ "id" \notin DOMAIN nodeData
  /\ "children" \in DOMAIN nodeData =>
       \A i \in DOMAIN nodeData.children : CarriesNoId(nodeData.children[i])

\* C22: what deepSerializeNode returns carries no identifier of the source
\* element, at any depth.
C22_SerializedTreeCarriesNoIdentity ==
  codec.pc # "start" /\ codec.pc # "idle" => CarriesNoId(codec.nodeData)

\* the stages of a cross-document transfer, by the await the handler stands at
StageOf(pc) ==
  CASE pc = "cross_scopes" -> 1     \* before Cloning
    [] pc = "cross_serialize" -> 2  \* cloned, Serializing
    [] pc = "cross_getFile" -> 3    \* serialized, ValidatingDestination
    [] pc = "cross_post" -> 4       \* destination valid, Publishing
    [] pc = "done" -> 5             \* Cleanup and Done, or Failed
    [] OTHER -> 0

CloneOnPage(pages, x) ==
  x.clone # <<>> /\ \E i \in DOMAIN pages : x.clone \in NodeIdsOn(pages, pages[i].id)

TerminalUi == {Complete(TRUE), Complete(FALSE), ErrorMsg}
Posted(ui) == {ui[k] : k \in DOMAIN ui}

C23_State ==
  (variant = "part_000" /\ CrossRequest) =>
    \* the file is asked for before the comment is posted
    /\ xfer.calls \in {<<>>, <<"GET_FILE">>, <<"GET_FILE", "POST_COMMENT">>}
    /\ StageOf(xfer.pc) <= 2 => xfer.calls = <<>>
    /\ StageOf(xfer.pc) = 3 => xfer.calls = <<"GET_FILE">>
    /\ StageOf(xfer.pc) = 4 => xfer.calls = <<"GET_FILE", "POST_COMMENT">>
    \* the comment is posted only for a page the destination has
    /\ "POST_COMMENT" \in Posted(xfer.calls) =>
          /\ xfer.msg.pageId \in dstPages
          /\ xfer.msg.newPageName = ""
          /\ xfer.target = xfer.msg.pageId
    \* the feed changes only at the publishing stage
    /\ StageOf(xfer.pc) <= 4 => feed = xfer.feedBefore
    /\ feed # xfer.feedBefore => "POST_COMMENT" \in Posted(xfer.calls)
    \* no outcome before the end, exactly one at the end
    /\ xfer.pc # "done" => Posted(xfer.ui) \cap TerminalUi = {} /\ xfer.outcome = "none"
    /\ xfer.pc = "done" =>
          \/ /\ xfer.outcome = "success"
              /\ Posted(xfer.ui) \cap TerminalUi = {Complete(TRUE)}
              /\ xfer.ui[Len(xfer.ui)] = Complete(TRUE)
              /\ ~CloneOnPage(srcPages, xfer)
              /\ xfer.calls = <<"GET_FILE", "POST_COMMENT">>
              /\ feed # xfer.feedBefore
          \/ /\ xfer.outcome = "failed"
              /\ Posted(xfer.ui) \cap TerminalUi = {Complete(FALSE), ErrorMsg}
              /\ xfer.ui[Len(xfer.ui)] = ErrorMsg
              /\ xfer.ui[Len(xfer.ui) - 1] = Complete(FALSE)

C23_Step ==
  (variant = "part_000" /\ CrossRequest /\ xfer.pc # "done") =>
    \* one stage at a time, in order, or straight to the failure report
    /\ \/ xfer' = xfer
       \/ StageOf(xfer'.pc) = StageOf(xfer.pc) + 1
       \/ xfer'.pc = "done" /\ xfer'.outcome = "failed"
    \* the clone exists from the Cloning stage on and goes only with the success
    /\ StageOf(xfer.pc) >= 2 => CloneOnPage(srcPages, xfer)
    /\ (CloneOnPage(srcPages, xfer) /\ ~CloneOnPage(srcPages', xfer)) =>
          /\ xfer.pc = "cross_post"
          /\ xfer'.outcome = "success"
          /\ Len(feed') = Len(feed) + 1

\* C23: a cross-document transfer goes through Cloning, Serializing,
\* ValidatingDestination, Publishing, Cleanup and Done in that order: the
\* comment is never posted before the destination file was fetched and the
\* target page found in it, the clone is removed only with a posted comment
\* that succeeded, and a request ends in exactly one of the two outcomes.
C23_StagesInOrder == [][C23_Step /\ C23_State']_vars

\* a transfer that went through every stage and one that failed at the last
C23_Witness ==
  /\ variant = "part_000" /\ CrossRequest /\ xfer.pc = "done"
  /\ xfer.outcome = "success"
  /\ xfer.calls = <<"GET_FILE", "POST_COMMENT">>
  /\ Posted(xfer.ui) \cap TerminalUi = {Complete(TRUE)}
  /\ ~CloneOnPage(srcPages, xfer)

\* C29: a cross-document transfer that was reported as failed has left no
\* envelope of its own in the feed; only a transfer reported as successful has.
C29_FailedReportMeansNoEnvelope ==
  (variant = "part_000" /\ CrossRequest /\ xfer.pc = "done") =>
    /\ xfer.outcome = "failed" => feed = xfer.feedBefore
    /\ feed # xfer.feedBefore => xfer.outcome = "success"

\* the marker comments of a feed, in feed order
PendingOf(f) == SelectSeq(f, LAMBDA c : HasMarker(c.message))

C25_OnlyTheRootTouchesThePage ==
  (codec.pc = "built" /\ codec.fails = {}) =>
    /\ \A k \in DOMAIN codec.trace : codec.trace[k] \subseteq {<<>>}
    /\ codec.trace[Len(codec.trace)] = {<<>>}

\* every key addToRecentFiles has stored, oldest call first
History == [i \in 1..addLog.prefilled |-> i] \o addLog.calls
\* the position of the last call for a key, 0 when there was none
LastCall(key) ==
  LET at == {i \in DOMAIN History : History[i] = key}
  IN IF at = {} THEN 0 ELSE CHOOSE i \in at : \A j \in at : j <= i
RecentKeys == {recentFiles[i].key : i \in DOMAIN recentFiles}
HistoryKeys == {History[i] : i \in DOMAIN History}

\* C27: after calls of addToRecentFiles that ran one after another the stored
\* list has at most 20 entries, no key twice, the file added last at its head
\* and the files in the order of their last addition, newest first; the files
\* it has dropped are older than every file it keeps.
C27_RecentListBoundedUniqueNewestFirst ==
  /\ Len(recentFiles) <= RecentLimit
  /\ \A i, j \in DOMAIN recentFiles :
       i < j => /\ recentFiles[i].key # recentFiles[j].key
                /\ LastCall(recentFiles[i].key) > LastCall(recentFiles[j].key)
  /\ History # <<>> => recentFiles[1].key = History[Len(History)]
  /\ RecentKeys \subseteq HistoryKeys
  /\ \A k \in HistoryKeys \ RecentKeys :
       /\ Len(recentFiles) = RecentLimit
       /\ \A i \in DOMAIN recentFiles : LastCall(k) < LastCall(recentFiles[i].key)

\* a full list took a file it did not hold, dropped its oldest file, and then
\* took a file it held, which moved to the head
C27_Witness ==
  /\ addLog.prefilled = RecentLimit
  /\ addLog.calls = <<RecentLimit + 1, RecentLimit>>
  /\ Len(recentFiles) = RecentLimit
  /\ recentFiles[1].key = RecentLimit
  /\ recentFiles[2].key = RecentLimit + 1
  /\ 1 \notin RecentKeys

\* C30: two get-pages messages for two different remote files, handled with
\* their awaits interleaved, leave both files in the stored list (which held
\* fewer than 19 entries before).
C30_BothFilesRecorded ==
  \A g, h \in 1..MaxHandlers :
    ( /\ g # h
      /\ getPages[g].pc = "done" /\ getPages[g].ui = "pages-list"
      /\ getPages[h].pc = "done" /\ getPages[h].ui = "pages-list"
      /\ getPages[g].fileKey # getPages[h].fileKey
      /\ addLog.prefilled < RecentLimit - 1 )
    => {getPages[g].fileKey, getPages[h].fileKey} \subseteq RecentKeys

\* C28: one destination session builds an element for an envelope at most once,
\* whatever becomes of the DELETE.
C28_OneSessionAppliesOnce ==
  \A j, k \in DOMAIN dstNodes : j # k => dstNodes[j].msg # dstNodes[k].msg

====
